---------------------------- MODULE Spec2Model ----------------------------
(***************************************************************************)
(* Model of src/app.py: the trade-report reconciliation of                 *)
(* analyze_performance, the description parser extract_option_details and  *)
(* the part of upload_file that reads the table and shows it again.        *)
(*                                                                         *)
(* Text is a sequence of one-character strings, so that the regular        *)
(* expressions and substring tests of the source are computed, not         *)
(* assumed.  A table cell is a tagged record: text, a number, or the       *)
(* missing value NaN of pandas.  Numbers are whole numbers (the inputs     *)
(* drawn below contain no decimal point); the quotient of 'Return %' is    *)
(* kept as an exact fraction.                                              *)
(***************************************************************************)
EXTENDS Integers, Sequences, FiniteSets, TLC

----------------------------------------------------------------------------
(* Cells *)

Str(s) == [t |-> "str", v |-> s]

Num(n) == [t |-> "num", v |-> n]

NaN == [t |-> "nan", v |-> 0]

IsStr(c) == c.t = "str"

IsNum(c) == c.t = "num"

IsNaN(c) == c.t = "nan"

\* Python's None, as returned by extract_option_details when nothing matches
NoneVal == <<"None">>

----------------------------------------------------------------------------
(* Characters and character classes of the re module *)

Digits == <<"0", "1", "2", "3", "4", "5", "6", "7", "8", "9">>

IsDigit(c) == \E k \in 1..10 : Digits[k] = c

DigitVal(c) == (CHOOSE k \in 1..10 : Digits[k] = c) - 1

Letters == {"A", "B", "C", "P", "T", "O", "S", "H", "X",
            "a", "b", "c", "d", "p", "u", "y", "e", "l", "x"}

\* \d : the digits
DigitChars == {Digits[k] : k \in 1..10}

\* \w : letters, digits and the underscore
WordChars == Letters \cup DigitChars \cup {"_"}

IsWord(c) == c \in WordChars

\* \s : white space
SpaceChars == {" "}

\* The last index of the longest run of characters of one class that
\* starts at index i (i-1 when the run is empty): a greedy `+'.
RunEnd(s, i, class) ==
    CHOOSE k \in (i-1)..Len(s) :
        /\ \A m \in i..k : s[m] \in class
        /\ (k = Len(s) \/ s[k+1] \notin class)

\* s[a..b]
Slice(s, a, b) == SubSeq(s, a, b)

\* sub in s, as the str.contains of pandas with a pattern free of
\* metacharacters
Contains(s, sub) ==
    \E a \in 1..(Len(s) - Len(sub) + 1) : SubSeq(s, a, a + Len(sub) - 1) = sub

----------------------------------------------------------------------------
(* extract_option_details: re.search of                                    *)
(*    (\w+)\s+(\d{2}/\d{2}/\d{2})\s+([PC])\s+(\d+)                           *)
(* Every greedy run is followed by a character outside its class, so the   *)
(* backtracking of re can only succeed with the longest run; the match at  *)
(* a start index is therefore determined by the runs.                      *)

IsDateAt(s, d) ==
    /\ d + 7 <= Len(s)
    /\ IsDigit(s[d]) /\ IsDigit(s[d+1]) /\ s[d+2] = "/"
    /\ IsDigit(s[d+3]) /\ IsDigit(s[d+4]) /\ s[d+5] = "/"
    /\ IsDigit(s[d+6]) /\ IsDigit(s[d+7])

NoDetails ==
    [ticker |-> NoneVal, expiration |-> NoneVal,
     option_type |-> NoneVal, strike |-> NoneVal]

\* the groups of the match that starts at index i; NoDetails when the
\* pattern does not match there
MatchAt(s, i) ==
    LET w   == RunEnd(s, i, WordChars)
        sp1 == RunEnd(s, w + 1, SpaceChars)
        d   == sp1 + 1
        sp2 == RunEnd(s, d + 8, SpaceChars)
        f   == sp2 + 1
        sp3 == RunEnd(s, f + 1, SpaceChars)
        k   == RunEnd(s, sp3 + 1, DigitChars)
    IN  IF /\ w >= i
           /\ sp1 >= w + 1
           /\ IsDateAt(s, d)
           /\ sp2 >= d + 8
           /\ f <= Len(s)
           /\ s[f] \in {"P", "C"}
           /\ sp3 >= f + 1
           /\ k >= sp3 + 1
        THEN [ticker      |-> Slice(s, i, w),
              expiration  |-> Slice(s, d, d + 7),
              option_type |-> Slice(s, f, f),
              strike      |-> Slice(s, sp3 + 1, k)]
        ELSE NoDetails

\* re.search returns the match with the leftmost start
extract_option_details(text) ==
    LET starts == {i \in 1..Len(text) : MatchAt(text, i) # NoDetails}
    IN  IF starts = {} THEN NoDetails
        ELSE MatchAt(text, CHOOSE i \in starts : \A m \in starts : i <= m)

\* `if ticker:' -- neither None nor the empty string
Truthy(x) == x # NoneVal /\ x # <<>>

\* f"{ticker} {expiration} {option_type} {strike}"
OptionKey(o) ==
    o.ticker \o <<" ">> \o o.expiration \o <<" ">> \o o.option_type
             \o <<" ">> \o o.strike

----------------------------------------------------------------------------
(* Numbers: pd.to_numeric(..., errors='coerce') and the type inference of  *)
(* pd.read_csv                                                             *)

AllDigits(s) == Len(s) > 0 /\ \A k \in 1..Len(s) : IsDigit(s[k])

\* text that parses as a whole number: digits with an optional sign
IsNumericText(s) ==
    /\ Len(s) > 0
    /\ IF s[1] = "-" THEN AllDigits(Tail(s)) ELSE AllDigits(s)

RECURSIVE DigitsValue(_)
DigitsValue(s) ==
    IF s = <<>> THEN 0
    ELSE 10 * DigitsValue(SubSeq(s, 1, Len(s) - 1)) + DigitVal(s[Len(s)])

TextValue(s) == IF s[1] = "-" THEN 0 - DigitsValue(Tail(s)) ELSE DigitsValue(s)

\* pd.to_numeric(cell, errors='coerce'): text that is no number becomes NaN
to_numeric(c) ==
    IF IsStr(c)
    THEN IF IsNumericText(c.v) THEN Num(TextValue(c.v)) ELSE NaN
    ELSE c

Columns == {"Instrument", "TransCode", "Quantity", "Price", "Amount", "Description"}

\* dtype object: the column holds text (an empty table has only object
\* columns); otherwise the column is numeric and has no .str accessor
IsObjectColumn(table, col) ==
    Len(table) = 0 \/ \E r \in 1..Len(table) : IsStr(table[r][col])

\* pd.read_csv (line 142): a column whose fields are all numbers or empty is
\* read as a numeric column, any other column stays text
read_csv(csv) ==
    [r \in 1..Len(csv) |->
        [col \in Columns |->
            IF \A q \in 1..Len(csv) :
                   IsStr(csv[q][col]) => IsNumericText(csv[q][col].v)
            THEN to_numeric(csv[r][col])
            ELSE csv[r][col]]]

----------------------------------------------------------------------------
(* The cleaning of lines 34-38 *)

\* re.sub('[\\$,]', '', s)
RECURSIVE StripCurrency(_)
StripCurrency(s) ==
    IF s = <<>> THEN <<>>
    ELSE IF Head(s) \in {"$", ","} THEN StripCurrency(Tail(s))
    ELSE <<Head(s)>> \o StripCurrency(Tail(s))

\* Series.replace('[\\$,]', '', regex=True): text cells only
ReplaceCurrency(c) == IF IsStr(c) THEN Str(StripCurrency(c.v)) ELSE c

\* index of the first ")" at or after index i, 0 when there is none
FirstClose(s, i) ==
    IF \E k \in i..Len(s) : s[k] = ")"
    THEN CHOOSE k \in i..Len(s) : s[k] = ")" /\ \A m \in i..(k-1) : s[m] # ")"
    ELSE 0

\* re.sub(r'\(([^)]+)\)', r'-\1', s): every "(...)" with a non-empty inside
\* becomes "-..."
RECURSIVE ParensToMinus(_)
ParensToMinus(s) ==
    IF s = <<>> THEN <<>>
    ELSE IF s[1] = "(" /\ Len(s) >= 3 /\ s[2] # ")" /\ FirstClose(s, 3) # 0
    THEN <<"-">> \o SubSeq(s, 2, FirstClose(s, 3) - 1)
                 \o ParensToMinus(SubSeq(s, FirstClose(s, 3) + 1, Len(s)))
    ELSE <<Head(s)>> \o ParensToMinus(Tail(s))

\* Series.str.replace(pat, repl) of line 37.  The call does not pass regex=:
\* the default is True before pandas 2.0 and False from 2.0 on, where the
\* pattern is searched as literal text (and the text of an amount never
\* contains it).
StrReplaceParens(c, regex) ==
    IF IsStr(c) /\ regex THEN Str(ParensToMinus(c.v)) ELSE c

\* lines 34 and 35, which run before line 37 can raise
CleanPriceQuantity(table) ==
    [r \in 1..Len(table) |->
        [table[r] EXCEPT !["Price"]    = to_numeric(ReplaceCurrency(@)),
                         !["Quantity"] = to_numeric(@)]]

\* lines 36-38
CleanAmount(table, regex) ==
    [r \in 1..Len(table) |->
        [table[r] EXCEPT !["Amount"] =
            to_numeric(StrReplaceParens(ReplaceCurrency(@), regex))]]

----------------------------------------------------------------------------
(* The subsets of lines 41-45 and the arithmetic of pandas *)

\* Series.str.contains(code, na=False)
CodeContains(row, code) ==
    IsStr(row["TransCode"]) /\ Contains(row["TransCode"].v, code)

IsBuy(row) == CodeContains(row, <<"B", "u", "y">>)

IsSell(row) == CodeContains(row, <<"S", "e", "l", "l">>)

IsBTO(row) == CodeContains(row, <<"B", "T", "O">>)

IsSTO(row) == CodeContains(row, <<"S", "T", "O">>)

stock_buy_transactions(table) == SelectSeq(table, IsBuy)

stock_sell_transactions(table) == SelectSeq(table, IsSell)

option_buy_transactions(table) == SelectSeq(table, IsBTO)

option_sell_transactions(table) == SelectSeq(table, IsSTO)

\* a * b on float64: NaN when either side is NaN
Mul(a, b) == IF IsNaN(a) \/ IsNaN(b) THEN NaN ELSE Num(a.v * b.v)

\* a - b
Sub(a, b) == IF IsNaN(a) \/ IsNaN(b) THEN NaN ELSE Num(a.v - b.v)

\* Series.sum() as it would be with skipna=False: one NaN makes the sum NaN
RECURSIVE SeriesSumPropagate(_)
SeriesSumPropagate(cells) ==
    IF cells = <<>> THEN Num(0)
    ELSE IF IsNaN(Head(cells)) \/ IsNaN(SeriesSumPropagate(Tail(cells))) THEN NaN
    ELSE Num(Head(cells).v + SeriesSumPropagate(Tail(cells)).v)

\* Series.sum(): skipna=True is the default, NaN entries are left out and
\* the sum of nothing is 0
RECURSIVE SeriesSum(_)
SeriesSum(cells) ==
    IF cells = <<>> THEN Num(0)
    ELSE IF IsNaN(Head(cells)) THEN SeriesSum(Tail(cells))
    ELSE Num(Head(cells).v + SeriesSum(Tail(cells)).v)

\* (rows['Quantity'] * rows['Price'])
QuantityTimesPrice(rows) ==
    [r \in 1..Len(rows) |-> Mul(rows[r]["Quantity"], rows[r]["Price"])]

QuantityColumn(rows) == [r \in 1..Len(rows) |-> rows[r]["Quantity"]]

Abs(n) == IF n < 0 THEN 0 - n ELSE n

RECURSIVE Gcd(_, _)
Gcd(a, b) == IF b = 0 THEN a ELSE Gcd(b, a % b)

\* the exact quotient n / d in lowest terms with a positive denominator
Frac(n, d) ==
    LET g == Gcd(Abs(n), Abs(d))
        sg == IF d < 0 THEN 0 - 1 ELSE 1
    IN  [t |-> "frac", n |-> sg * (n \div g), d |-> sg * (d \div g)]

\* (profit_loss / total_bought) * 100 if total_bought != 0 else 0
\* (NaN != 0 is true, and the quotient with NaN is NaN)
ReturnPct(profit_loss, total_bought) ==
    IF IsNaN(total_bought) THEN NaN
    ELSE IF total_bought.v = 0 THEN Frac(0, 1)
    ELSE IF IsNaN(profit_loss) THEN NaN
    ELSE Frac(profit_loss.v * 100, total_bought.v)

----------------------------------------------------------------------------
(* The dict `performance' (insertion ordered) and the list `unresolved' *)

DictHas(d, key) == \E e \in 1..Len(d) : d[e].key = key

DictGet(d, key) == d[CHOOSE e \in 1..Len(d) : d[e].key = key].rec

\* a dict write that keeps the value already stored under the key
DictSetKeepFirst(d, key, rec) ==
    IF DictHas(d, key) THEN d ELSE Append(d, [key |-> key, rec |-> rec])

\* d[key] = rec: an existing key keeps its place and gets the new value
DictSet(d, key, rec) ==
    IF DictHas(d, key)
    THEN [e \in 1..Len(d) |-> IF d[e].key = key THEN [key |-> key, rec |-> rec] ELSE d[e]]
    ELSE Append(d, [key |-> key, rec |-> rec])

\* list.insert(0, key) in place of append
ListPrepend(list, key) == <<key>> \o list

\* unresolved.append(key)
ListAppend(list, key) == Append(list, key)

\* Series.dropna().unique(): the text values in order of first appearance
RECURSIVE Unique(_, _)
Unique(cells, seen) ==
    IF cells = <<>> THEN <<>>
    ELSE IF IsNaN(Head(cells)) \/ Head(cells).v \in seen
    THEN Unique(Tail(cells), seen)
    ELSE <<Head(cells).v>> \o Unique(Tail(cells), seen \cup {Head(cells).v})

InstrumentColumn(rows) == [r \in 1..Len(rows) |-> rows[r]["Instrument"]]

\* line 51: the tickers the stock loop runs over
StockTickers(table) == Unique(InstrumentColumn(stock_buy_transactions(table)), {})

\* rows[rows['Instrument'] == ticker]
WithInstrument(rows, ticker) ==
    LET Test(row) == row["Instrument"] = Str(ticker)
    IN  SelectSeq(rows, Test)

\* the record with the quantity summed over the Sell rows
StockRecordSellQuantity(buys, sells) ==
    LET total_bought == SeriesSum(QuantityTimesPrice(buys))
        total_sold   == SeriesSum(QuantityTimesPrice(sells))
        profit_loss  == Sub(total_sold, total_bought)
    IN  [TotalQuantity   |-> SeriesSum(QuantityColumn(sells)),
         TotalProfitLoss |-> profit_loss,
         ReturnPct       |-> ReturnPct(profit_loss, total_bought)]

\* lines 58-67: the record of a stock position
StockRecord(buys, sells) ==
    LET total_bought == SeriesSum(QuantityTimesPrice(buys))
        total_sold   == SeriesSum(QuantityTimesPrice(sells))
        profit_loss  == Sub(total_sold, total_bought)
    IN  [TotalQuantity   |-> SeriesSum(QuantityColumn(buys)),
         TotalProfitLoss |-> profit_loss,
         ReturnPct       |-> ReturnPct(profit_loss, total_bought)]

\* the test of line 57 without its second half
BuysPresent(buys, sells) == buys # <<>>

\* line 57: `if not buys.empty and not sells.empty'
BothPresent(buys, sells) == buys # <<>> /\ sells # <<>>

\* the filter of lines 76-79 without the comparison of the instrument
matching_sell_any_instrument(sto, ticker, expiration) ==
    LET Test(row) == /\ IsStr(row["Description"])
                     /\ Contains(row["Description"].v, expiration)
    IN  SelectSeq(sto, Test)

\* lines 76-79: the STO rows of the parsed ticker whose description holds
\* the expiration (a missing description counts as no match)
matching_sell(sto, ticker, expiration) ==
    LET Test(row) == /\ IsStr(row["Description"])
                     /\ Contains(row["Description"].v, expiration)
                     /\ row["Instrument"] = Str(ticker)
    IN  SelectSeq(sto, Test)

\* lines 82-92: the record of one BTO row
OptionRecord(row, matching) ==
    LET total_bought == Mul(row["Quantity"], row["Price"])
        total_sold   == SeriesSum(QuantityTimesPrice(matching))
        profit_loss  == Sub(total_sold, total_bought)
    IN  [TotalQuantity   |-> row["Quantity"],
         TotalProfitLoss |-> profit_loss,
         ReturnPct       |-> ReturnPct(profit_loss, total_bought)]

----------------------------------------------------------------------------
(* State *)

VARIABLES
    csv,            \* the fields of the uploaded file, as text
    data,           \* the DataFrame `data' of upload_file / analyze_performance
    performance,    \* the dict built by analyze_performance
    unresolved,     \* the list built by analyze_performance
    pc,             \* position in upload_file / analyze_performance
    i,              \* iterations done of the stock loop (line 51)
    j,              \* iterations done of the option loop (line 72)
    error,          \* the exception that ended the request, if any
    extracted_data, \* the table shown after the summary (line 153)
    parts,          \* the pieces a description under test is written from
    description,    \* argument of a direct call of extract_option_details
    details         \* its result

vars == <<csv, data, performance, unresolved, pc, i, j, error,
          extracted_data, parts, description, details>>

parserVars == <<parts, description, details>>

engineVars == <<csv, data, performance, unresolved, i, j, error, extracted_data>>


----------------------------------------------------------------------------
(* Inputs *)

\* the largest number of rows of an uploaded table
MaxRows == 3

SP == <<" ">>

tA == <<"A">>

tB == <<"B">>

Jan19 == <<"0", "1", "/", "1", "9", "/", "2", "4">>

Feb16 == <<"0", "2", "/", "1", "6", "/", "2", "4">>

\* "A 01/19/24 C 25"
DescJanC25 == tA \o SP \o Jan19 \o SP \o <<"C">> \o SP \o <<"2", "5">>

\* "A 01/19/24 P 30"
DescJanP30 == tA \o SP \o Jan19 \o SP \o <<"P">> \o SP \o <<"3", "0">>

\* "A 02/16/24 C 25"
DescFebC25 == tA \o SP \o Feb16 \o SP \o <<"C">> \o SP \o <<"2", "5">>

\* "A Call", a description the pattern does not match
DescBad == <<"A", " ", "C", "a", "l", "l">>

Buy == Str(<<"B", "u", "y">>)

Sell == Str(<<"S", "e", "l", "l">>)

BTO == Str(<<"B", "T", "O">>)

STO == Str(<<"S", "T", "O">>)

Row(inst, code, qty, price, amount, desc) ==
    [col \in Columns |->
        CASE col = "Instrument"  -> inst
          [] col = "TransCode"   -> code
          [] col = "Quantity"    -> qty
          [] col = "Price"       -> price
          [] col = "Amount"      -> amount
          [] col = "Description" -> desc]

\* "($1,000)" and "$1,200", amounts as the export writes them
AmountPaid == Str(<<"(", "$", "1", ",", "0", "0", "0", ")">>)

AmountReceived == Str(<<"$", "1", ",", "2", "0", "0">>)

Qty(text) == Str(text)

Usd(text) == Str(<<"$">> \o text)

\* stock rows: Buy A 10 @ $100, 5 @ $0 and a quantity that is no number
\* @ $1,200; Sell A 10 @ $120 and no number @ $1,200; Buy B and Sell B
StockRows ==
    { Row(Str(tA), Buy,  Qty(<<"1", "0">>), Usd(<<"1", "0", "0">>), AmountPaid, Str(tA)),
      Row(Str(tA), Buy,  Qty(<<"5">>),      Usd(<<"0">>),           AmountPaid, Str(tA)),
      Row(Str(tA), Buy,  Qty(<<"x">>),      Usd(<<"1", ",", "2", "0", "0">>), AmountPaid, Str(tA)),
      Row(Str(tA), Sell, Qty(<<"1", "0">>), Usd(<<"1", "2", "0">>), AmountReceived, Str(tA)),
      Row(Str(tA), Sell, Qty(<<"x">>),      Usd(<<"1", ",", "2", "0", "0">>), AmountReceived, Str(tA)),
      Row(Str(tB), Buy,  Qty(<<"1", "0">>), Usd(<<"1", "0", "0">>), AmountPaid, Str(tB)),
      Row(Str(tB), Sell, Qty(<<"1", "0">>), Usd(<<"1", "2", "0">>), AmountReceived, Str(tB)) }

\* a Buy row without instrument, and the all-empty trailing row of an export
OddRows ==
    { Row(NaN, Buy, Qty(<<"1", "0">>), Usd(<<"1", "0", "0">>), NaN, NaN),
      Row(NaN, NaN, NaN, NaN, NaN, NaN) }

\* BTO rows: the call of strike 25 bought twice (1 @ $2, 2 @ $3), a call of
\* another expiration, a description the pattern does not match, and a
\* missing description
OptionBuyRows ==
    { Row(Str(tA), BTO, Qty(<<"1">>), Usd(<<"2">>), AmountPaid, Str(DescJanC25)),
      Row(Str(tA), BTO, Qty(<<"2">>), Usd(<<"3">>), AmountPaid, Str(DescJanC25)),
      Row(Str(tA), BTO, Qty(<<"1">>), Usd(<<"2">>), AmountPaid, Str(DescFebC25)),
      Row(Str(tA), BTO, Qty(<<"1">>), Usd(<<"2">>), AmountPaid, Str(DescBad)),
      Row(Str(tA), BTO, Qty(<<"1">>), Usd(<<"2">>), AmountPaid, NaN) }

\* STO rows: of A for the put, of B for the call, and of A without description
OptionSellRows ==
    { Row(Str(tA), STO, Qty(<<"1">>), Usd(<<"4">>), AmountReceived, Str(DescJanP30)),
      Row(Str(tB), STO, Qty(<<"1">>), Usd(<<"4">>), AmountReceived, Str(DescJanC25)),
      Row(Str(tA), STO, Qty(<<"1">>), Usd(<<"4">>), AmountReceived, NaN) }

\* the rows of the stock-centred and of the option-centred tables
StockTableRows ==
    StockRows \cup OddRows \cup
    { Row(Str(tA), BTO, Qty(<<"1">>), Usd(<<"2">>), AmountPaid, Str(DescJanC25)),
      Row(Str(tA), BTO, Qty(<<"x">>), Usd(<<"2">>), AmountPaid, Str(DescJanC25)),
      Row(Str(tA), STO, Qty(<<"1">>), Usd(<<"4">>), AmountReceived, Str(DescJanC25)) }

OptionTableRows ==
    OptionBuyRows \cup OptionSellRows \cup
    { Row(Str(tA), Buy,  Qty(<<"1", "0">>), Usd(<<"1", "0", "0">>), AmountPaid, Str(tA)),
      Row(Str(tB), Buy,  Qty(<<"1", "0">>), Usd(<<"1", "0", "0">>), AmountPaid, Str(tB)),
      Row(Str(tA), Sell, Qty(<<"1", "0">>), Usd(<<"1", "2", "0">>), AmountReceived, Str(tA)) }

Tables(rows) == UNION { [1..n -> rows] : n \in 0..MaxRows }

----------------------------------------------------------------------------
(* upload_file and analyze_performance *)

InitEngine(rows) ==
    /\ csv \in Tables(rows)
    /\ data = read_csv(csv)
    /\ performance = <<>>
    /\ unresolved = <<>>
    /\ pc = "clean"
    /\ i = 0
    /\ j = 0
    /\ error = "none"
    /\ extracted_data = <<>>
    /\ parts = <<>>
    /\ description = <<>>
    /\ details = NoDetails

Init == InitEngine(StockTableRows)

InitOptions == InitEngine(OptionTableRows)

\* lines 34-38.  Series.str of line 37 raises AttributeError on a column
\* that is not of dtype object; lines 34 and 35 have run by then.
Clean ==
    /\ pc = "clean"
    /\ \E regex \in BOOLEAN :
        IF IsObjectColumn(data, "Amount")
        THEN /\ data' = CleanAmount(CleanPriceQuantity(data), regex)
             /\ pc' = "partition"
             /\ error' = error
        ELSE /\ data' = CleanPriceQuantity(data)
             /\ pc' = "raised"
             /\ error' = "AttributeError"
    /\ UNCHANGED <<csv, performance, unresolved, i, j, extracted_data, parserVars>>

\* lines 41-48: the subsets are views of `data' (the operators above); the
\* .str accessor of line 41 raises on a column without text
Partition ==
    /\ pc = "partition"
    /\ IF IsObjectColumn(data, "TransCode")
       THEN /\ pc' = "loops"
            /\ error' = error
       ELSE /\ pc' = "raised"
            /\ error' = "AttributeError"
    /\ performance' = <<>>
    /\ unresolved' = <<>>
    /\ UNCHANGED <<csv, data, i, j, extracted_data, parserVars>>

\* lines 57-67: the dict after the iteration for `ticker'
StockPerformance(perf, ticker, buys, sells) ==
    IF BothPresent(buys, sells)
    THEN DictSet(perf, ticker, StockRecord(buys, sells))
    ELSE perf

\* lines 68-69 without the `else': every ticker is appended
StockUnresolvedNoElse(list, ticker, buys, sells) == ListAppend(list, ticker)

\* lines 57, 68-69: the list after the iteration for `ticker'
StockUnresolved(list, ticker, buys, sells) ==
    IF BothPresent(buys, sells) THEN list ELSE ListAppend(list, ticker)

\* one iteration of the loop of lines 51-69
StockStep ==
    /\ pc = "loops"
    /\ i < Len(StockTickers(data))
    /\ LET ticker == StockTickers(data)[i + 1]
           buys   == WithInstrument(stock_buy_transactions(data), ticker)
           sells  == WithInstrument(stock_sell_transactions(data), ticker)
       IN  /\ performance' = StockPerformance(performance, ticker, buys, sells)
           /\ unresolved' = StockUnresolved(unresolved, ticker, buys, sells)
    /\ i' = i + 1
    /\ UNCHANGED <<csv, data, pc, j, error, extracted_data, parserVars>>

\* lines 74, 81-92: the dict after the iteration for a BTO row with parsed
\* details o and matching STO rows m
OptionPerformance(perf, row, o, m) ==
    IF Truthy(o.ticker) /\ m # <<>>
    THEN DictSet(perf, OptionKey(o), OptionRecord(row, m))
    ELSE perf

\* lines 74, 81, 93-94: the list after that iteration
OptionUnresolved(list, o, m) ==
    IF Truthy(o.ticker) /\ m = <<>>
    THEN ListAppend(list, OptionKey(o))
    ELSE list

\* one iteration of the loop of lines 72-94.  re.search raises TypeError
\* when row['Description'] is NaN (a float) instead of text; the exception
\* leaves analyze_performance and upload_file.
OptionStep ==
    /\ pc = "loops"
    /\ i = Len(StockTickers(data))
    /\ j < Len(option_buy_transactions(data))
    /\ LET row == option_buy_transactions(data)[j + 1]
       IN  IF ~IsStr(row["Description"])
           THEN /\ pc' = "raised"
                /\ error' = "TypeError"
                /\ UNCHANGED <<performance, unresolved>>
           ELSE LET o == extract_option_details(row["Description"].v)
                    m == IF Truthy(o.ticker)
                         THEN matching_sell(option_sell_transactions(data),
                                            o.ticker, o.expiration)
                         ELSE <<>>
                IN  /\ pc' = pc
                    /\ error' = error
                    /\ performance' = OptionPerformance(performance, row, o, m)
                    /\ unresolved' = OptionUnresolved(unresolved, o, m)
    /\ j' = j + 1
    /\ UNCHANGED <<csv, data, i, extracted_data, parserVars>>

\* line 96
Return ==
    /\ pc = "loops"
    /\ i = Len(StockTickers(data))
    /\ j = Len(option_buy_transactions(data))
    /\ pc' = "returned"
    /\ UNCHANGED <<engineVars, parserVars>>

\* lines 150-157: the caller shows the table it handed to analyze_performance
Display ==
    /\ pc = "returned"
    /\ extracted_data' = data
    /\ pc' = "done"
    /\ UNCHANGED <<csv, data, performance, unresolved, i, j, error, parserVars>>

Next == Clean \/ Partition \/ StockStep \/ OptionStep \/ Return \/ Display

Spec == Init /\ [][Next]_vars

SpecOptions == InitOptions /\ [][Next]_vars

----------------------------------------------------------------------------
(* extract_option_details called on its own *)

\* "1/19/24", a date with a one-digit month, and "01/19/2024"
ShortDate == <<"1", "/", "1", "9", "/", "2", "4">>

LongDate == <<"0", "1", "/", "1", "9", "/", "2", "0", "2", "4">>

PartSets ==
    [ticker : {<<>>, tA, <<"A", "B">>},
     sep1   : {<<>>, SP},
     date   : {<<>>, Jan19, ShortDate, LongDate},
     sep2   : {<<>>, SP},
     flag   : {<<>>, <<"C">>, <<"P">>, <<"c">>, <<"p">>},
     sep3   : {<<>>, SP},
     strike : {<<>>, <<"2", "5">>, <<"2", "5", ".", "5">>}]

Join(p) == p.ticker \o p.sep1 \o p.date \o p.sep2 \o p.flag \o p.sep3 \o p.strike

InitParse ==
    /\ parts \in PartSets
    /\ description = Join(parts)
    /\ details = NoDetails
    /\ pc = "parse"
    /\ csv = <<>>
    /\ data = <<>>
    /\ performance = <<>>
    /\ unresolved = <<>>
    /\ i = 0
    /\ j = 0
    /\ error = "none"
    /\ extracted_data = <<>>

\* lines 26-30
Parse ==
    /\ pc = "parse"
    /\ details' = extract_option_details(description)
    /\ pc' = "parsed"
    /\ UNCHANGED <<engineVars, parts, description>>

NextParse == Parse

SpecParse == InitParse /\ [][NextParse]_vars

----------------------------------------------------------------------------
(* Vocabulary of the properties.  They are stated on the rows of the table *)
(* by index, with sums over index sets in which a row with a null          *)
(* quantity or price counts for nothing.                                   *)

Returned == pc \in {"returned", "done"}

InList(list, key) == \E e \in 1..Len(list) : list[e] = key

RECURSIVE SumOver(_, _)
SumOver(f, S) ==
    IF S = {} THEN 0
    ELSE LET x == CHOOSE x \in S : TRUE IN f[x] + SumOver(f, S \ {x})

RowIdx == 1..Len(data)

Known(r) == IsNum(data[r]["Quantity"]) /\ IsNum(data[r]["Price"])

Value == [r \in RowIdx |->
            IF Known(r) THEN data[r]["Quantity"].v * data[r]["Price"].v ELSE 0]

Shares == [r \in RowIdx |->
            IF IsNum(data[r]["Quantity"]) THEN data[r]["Quantity"].v ELSE 0]

BuyIdx(t) == {r \in RowIdx : IsBuy(data[r]) /\ data[r]["Instrument"] = Str(t)}

SellIdx(t) == {r \in RowIdx : IsSell(data[r]) /\ data[r]["Instrument"] = Str(t)}

BoughtTickers ==
    {data[r]["Instrument"].v :
        r \in {q \in RowIdx : IsBuy(data[q]) /\ IsStr(data[q]["Instrument"])}}

IsComposite(key) == Contains(key, SP)

BTORows == option_buy_transactions(data)

\* the parsed details of a row, NoDetails when nothing is parsed
Details(row) ==
    IF IsStr(row["Description"])
    THEN extract_option_details(row["Description"].v)
    ELSE NoDetails

\* the parsed details of the BTO rows, by position in the BTO subset
BTODetails == [k \in 1..Len(BTORows) |-> Details(BTORows[k])]

\* the STO rows of the parsed ticker whose description holds the expiration
MatchIdx(o) ==
    {r \in RowIdx :
        /\ IsSTO(data[r])
        /\ data[r]["Instrument"] = Str(o.ticker)
        /\ IsStr(data[r]["Description"])
        /\ Contains(data[r]["Description"].v, o.expiration)}

ZeroPct == [t |-> "frac", n |-> 0, d |-> 1]

\* pct is pl / cost * 100, or 0 when cost is 0
IsReturnOf(pct, pl, cost) ==
    IF cost = 0 THEN pct = ZeroPct
    ELSE pct.t = "frac" /\ pct.d # 0 /\ pct.n * cost = pl * 100 * pct.d

\* rec is the record that the BTO row `row' and the STO rows `match' give
IsOptionRecordOf(rec, row, match) ==
    LET known == IsNum(row["Quantity"]) /\ IsNum(row["Price"])
        cost  == row["Quantity"].v * row["Price"].v
        pl    == SumOver(Value, match) - cost
    IN  /\ rec.TotalQuantity = row["Quantity"]
        /\ IF known
           THEN rec.TotalProfitLoss = Num(pl) /\ IsReturnOf(rec.ReturnPct, pl, cost)
           ELSE IsNaN(rec.TotalProfitLoss) /\ IsNaN(rec.ReturnPct)

----------------------------------------------------------------------------
(* C1: after analyze_performance (and in every state on the way) no string *)
(* is both a key of performance and an element of unresolved, stock keys   *)
(* and option keys taken together.                                         *)
C1_MutuallyExclusive ==
    \A e \in 1..Len(performance) : ~InList(unresolved, performance[e].key)

\* an option position and a stock position resolved next to an option
\* position left unresolved
C1_Witness ==
    /\ pc = "done"
    /\ \E e \in 1..Len(performance) : IsComposite(performance[e].key)
    /\ \E e \in 1..Len(unresolved) : IsComposite(unresolved[e])

(* C2: for every ticker with a Buy row and a Sell row the record under the *)
(* bare ticker has total quantity = sum of the Buy quantities, profit/loss *)
(* = sum(quantity x price of Sell rows) - sum(quantity x price of Buy      *)
(* rows), and return % = profit/loss / cost x 100, or 0 when cost is 0.    *)
C2_StockRecord ==
    Returned =>
        \A t \in BoughtTickers :
            SellIdx(t) # {} =>
                /\ DictHas(performance, t)
                /\ LET rec  == DictGet(performance, t)
                       cost == SumOver(Value, BuyIdx(t))
                       pl   == SumOver(Value, SellIdx(t)) - cost
                   IN  /\ rec.TotalQuantity = Num(SumOver(Shares, BuyIdx(t)))
                       /\ rec.TotalProfitLoss = Num(pl)
                       /\ IsReturnOf(rec.ReturnPct, pl, cost)

\* Buy 10 @ 100 and Sell 10 @ 120: quantity 10, profit 200, return 20 %
C2_Witness ==
    /\ pc = "done"
    /\ DictHas(performance, tA)
    /\ DictGet(performance, tA) =
          [TotalQuantity |-> Num(10), TotalProfitLoss |-> Num(200),
           ReturnPct |-> [t |-> "frac", n |-> 20, d |-> 1]]

(* C3: a ticker of the Buy subset is a key of performance exactly when a   *)
(* Sell row exists for it and an element of unresolved exactly when none   *)
(* exists; every stock key of performance has Buy and Sell rows, every     *)
(* stock entry of unresolved has Buy rows and no Sell row.                 *)
C3_StockResolution ==
    Returned =>
        /\ \A t \in BoughtTickers :
              /\ DictHas(performance, t) <=> SellIdx(t) # {}
              /\ InList(unresolved, t) <=> SellIdx(t) = {}
        /\ \A e \in 1..Len(performance) :
              ~IsComposite(performance[e].key) =>
                  BuyIdx(performance[e].key) # {} /\ SellIdx(performance[e].key) # {}
        /\ \A e \in 1..Len(unresolved) :
              ~IsComposite(unresolved[e]) =>
                  BuyIdx(unresolved[e]) # {} /\ SellIdx(unresolved[e]) = {}

C3_Witness ==
    /\ pc = "done"
    /\ \E t \in BoughtTickers : InList(unresolved, t) /\ ~DictHas(performance, t)
    /\ \E t \in BoughtTickers : DictHas(performance, t) /\ ~InList(unresolved, t)

C5_LastWriteWins ==
    Returned =>
        LET det == BTODetails
        IN  \A k \in 1..Len(BTORows) :
                (det[k] # NoDetails /\ MatchIdx(det[k]) # {}) =>
                    LET same == {m \in 1..Len(BTORows) : det[m] = det[k]}
                        last == CHOOSE m \in same : \A n \in same : n <= m
                    IN  /\ Cardinality({e \in 1..Len(performance) :
                                  performance[e].key = OptionKey(det[k])}) = 1
                        /\ IsOptionRecordOf(DictGet(performance, OptionKey(det[k])),
                                            BTORows[last], MatchIdx(det[k]))

\* two BTO rows of one identity with different quantities, both matched
C5_Witness ==
    /\ pc = "done"
    /\ \E k, m \in 1..Len(BTORows) :
          /\ k < m
          /\ Details(BTORows[k]) # NoDetails
          /\ Details(BTORows[k]) = Details(BTORows[m])
          /\ BTORows[k]["Quantity"] # BTORows[m]["Quantity"]
          /\ DictHas(performance, OptionKey(Details(BTORows[k])))

(* C6 (as claimed): a BTO row whose description does not parse to an      *)
(* option identity, a missing description included, is skipped: the step   *)
(* that handles it does not raise and leaves performance and unresolved    *)
(* as they are.                                                            *)
C6_SkippedSilently ==
    [][ ( /\ pc = "loops"
          /\ i = Len(StockTickers(data))
          /\ j < Len(BTORows)
          /\ Details(BTORows[j + 1]) = NoDetails )
        => ( /\ pc' = "loops"
             /\ error' = "none"
             /\ performance' = performance
             /\ unresolved' = unresolved ) ]_vars

\* a text "TICKER MM/DD/YY [P|C] NNN" written from its pieces
WellFormed(p) ==
    /\ p.ticker # <<>> /\ \A k \in 1..Len(p.ticker) : IsWord(p.ticker[k])
    /\ p.sep1 = SP /\ p.sep2 = SP /\ p.sep3 = SP
    /\ Len(p.date) = 8 /\ IsDateAt(p.date, 1)
    /\ p.flag \in {<<"P">>, <<"C">>}
    /\ AllDigits(p.strike)

\* a piece or a separator is missing, the flag is lowercase, or the strike
\* has a decimal point
Defective(p) ==
    \/ p.ticker = <<>> \/ p.date = <<>> \/ p.flag = <<>> \/ p.strike = <<>>
    \/ p.sep1 = <<>> \/ p.sep2 = <<>> \/ p.sep3 = <<>>
    \/ p.flag \in {<<"p">>, <<"c">>}
    \/ \E k \in 1..Len(p.strike) : p.strike[k] = "."

(* C7 (as claimed): extract_option_details returns the four components of  *)
(* every well-formed "TICKER MM/DD/YY [P|C] NNN" text, and the empty       *)
(* identity for a text that lacks a token or a separator, has a lowercase  *)
(* flag, or has a strike with a decimal point.                             *)
C7_ParserContract ==
    pc = "parsed" =>
        /\ WellFormed(parts) =>
              details = [ticker |-> parts.ticker, expiration |-> parts.date,
                         option_type |-> parts.flag, strike |-> parts.strike]
        /\ Defective(parts) => details = NoDetails

MalformedQuantity(c) == IsStr(c) /\ ~IsNumericText(c.v)

MalformedPrice(c) == IsStr(c) /\ ~IsNumericText(StripCurrency(c.v))

\* after lines 34-35 the table has its rows, and text that is no number is NaN
CoercedToNull ==
    pc \notin {"clean", "parse", "parsed"} =>
        /\ Len(data) = Len(csv)
        /\ \A r \in RowIdx :
              /\ MalformedQuantity(csv[r]["Quantity"]) => IsNaN(data[r]["Quantity"])
              /\ MalformedPrice(csv[r]["Price"]) => IsNaN(data[r]["Price"])

FirstBuy(t) == CHOOSE r \in BuyIdx(t) : \A q \in BuyIdx(t) : r <= q

\* the keys of the parsed details without matching STO row, in order
RECURSIVE UnresolvedOptionKeys(_)
UnresolvedOptionKeys(det) ==
    IF det = <<>> THEN <<>>
    ELSE (IF Head(det) # NoDetails /\ MatchIdx(Head(det)) = {}
          THEN <<OptionKey(Head(det))>> ELSE <<>>)
         \o UnresolvedOptionKeys(Tail(det))

C9_UnresolvedOrder ==
    Returned =>
        LET open == {t \in BoughtTickers : SellIdx(t) = {}}
            ns   == Cardinality(open)
            keys == UnresolvedOptionKeys(BTODetails)
        IN  /\ Len(unresolved) = ns + Len(keys)
            /\ \A a \in 1..ns : unresolved[a] \in open
            /\ \A a, b \in 1..ns :
                  a < b => FirstBuy(unresolved[a]) < FirstBuy(unresolved[b])
            /\ SubSeq(unresolved, ns + 1, Len(unresolved)) = keys
            /\ \A a, b \in 1..Len(unresolved) :
                  a < b => ~(IsComposite(unresolved[a]) /\ ~IsComposite(unresolved[b]))

\* a BTO row stands before the Buy rows in the table, and still the two
\* tickers come first, in their row order, before the option key
C9_Witness ==
    /\ pc = "done"
    /\ Len(unresolved) = 3
    /\ IsBTO(data[1]) /\ IsBuy(data[2]) /\ IsBuy(data[3])
    /\ unresolved[1] = data[2]["Instrument"].v
    /\ unresolved[2] = data[3]["Instrument"].v
    /\ IsComposite(unresolved[3])

(* C10 (as claimed): analyze_performance leaves the table of its caller    *)
(* as it was: after it returns every cell holds the value it held when     *)
(* read_csv produced the table.                                            *)
C10_TableReadOnly ==
    Returned => data = read_csv(csv)

=============================================================================
